---- MODULE Spec2Model ----
(***************************************************************************)
(* Model of gluonts.distribution.binned.Binned                             *)
(* (src/src/gluonts/distribution/binned.py).                               *)
(*                                                                         *)
(* One Binned instance with a batch of one element is modelled; every     *)
(* tensor operation of the class is elementwise or a reduction over the   *)
(* bin axis, so batch elements and quantile levels do not interact.       *)
(*                                                                         *)
(* Number representation.                                                  *)
(*  - Values on the real line (bin centers, bin edges, queries x) are      *)
(*    exact integer multiples of 2.5e9, written as that multiple.  The     *)
(*    sentinel magnitude 1.0e10 of _compute_edges is therefore 4.  Bin     *)
(*    centers are even multiples, so the midpoints of _compute_edges are   *)
(*    exact.                                                               *)
(*  - Log-probabilities are base-2 exponents: a finite value v, or -inf.   *)
(*    exp() maps v to 2^v in fixed point with FracBits fractional bits     *)
(*    (unit 2^-FracBits), underflowing to 0 below the resolution, and      *)
(*    -inf to 0.                                                           *)
(*    float32 does the same: exp(v) is 0 for v below about -104 and 1 + 0  *)
(*    is exactly 1.                                                        *)
(*  - Arithmetic that can meet -inf follows IEEE-754: -inf * 0 = nan,      *)
(*    nan is absorbing in sums.                                            *)
(***************************************************************************)
EXTENDS Integers, Sequences, FiniteSets, TLC

(* ----------------------------- bounds --------------------------------- *)
MaxBins == 3
MaxCenter == 1
FracBits == 2
MaxSamples == 2
NumThreads == 2

(* 1.0e10 in units of 2.5e9 *)
Sentinel == 4

(* --------------------------- number domain ----------------------------- *)
RECURSIVE Pow2(_)
Pow2(n) == IF n = 0 THEN 1 ELSE 2 * Pow2(n - 1)

One == Pow2(FracBits)

Fin(v) == [k |-> "fin", v |-> v]
NegInf == [k |-> "ninf", v |-> 0]
NaN == [k |-> "nan", v |-> 0]

MinLog == 0 - (FracBits + 1)
LogVals == {NegInf} \cup {Fin(v) : v \in MinLog..0}
CenterVals == {2 * c : c \in (0 - MaxCenter)..MaxCenter}
XVals == (0 - (Sentinel + 1))..(Sentinel + 1)
LevelVals == (0 - 1)..(One + 1)
Threads == 1..NumThreads

SeqsOf(S, n) == [1..n -> S]

(* elementwise product of a log-probability with a 0/1 mask entry *)
MulMask(l, m) ==
    IF l.k = "fin" THEN Fin(l.v * m)
    ELSE IF l.k = "ninf" THEN (IF m = 0 THEN NaN ELSE NegInf)
    ELSE NaN

AddExt(a, b) ==
    IF a.k = "nan" \/ b.k = "nan" THEN NaN
    ELSE IF a.k = "ninf" \/ b.k = "ninf" THEN NegInf
    ELSE Fin(a.v + b.v)

RECURSIVE SumExt(_)
SumExt(s) == IF s = <<>> THEN Fin(0) ELSE AddExt(Head(s), SumExt(Tail(s)))

RECURSIVE SumSeq(_)
SumSeq(s) == IF s = <<>> THEN 0 ELSE Head(s) + SumSeq(Tail(s))

(* tensor.exp() on one log-probability *)
Exp(l) ==
    IF l.k = "fin"
    THEN (IF l.v + FracBits >= 0 THEN Pow2(l.v + FracBits) ELSE 0)
    ELSE 0

ExpAll(ls) == [i \in 1..Len(ls) |-> Exp(ls[i])]

(* --------------------------- the instance ------------------------------ *)
VARIABLES bin_centers, bin_log_probs, bin_edges, _bin_probs, expCount,
          op, arg, out, idx, mask, pc, top, left

vars == <<bin_centers, bin_log_probs, bin_edges, _bin_probs, expCount,
          op, arg, out, idx, mask, pc, top, left>>

None == [set |-> FALSE, val |-> <<>>]
Some(v) == [set |-> TRUE, val |-> v]

(* slice_axis(axis=-1, begin=b, end=e) with 0-based begin, exclusive end *)
SliceAxis(t, b, e) == [i \in 1..(e - b) |-> t[b + i]]

(* _compute_edges with the sum of neighbouring centers not halved *)
compute_edges_sum(centers) ==
    LET n == Len(centers)
        a == SliceAxis(centers, 1, n)
        b == SliceAxis(centers, 0, n - 1)
    IN  <<0 - Sentinel>> \o [i \in 1..(n - 1) |-> a[i] + b[i]] \o <<Sentinel>>

(* Binned._compute_edges *)
compute_edges(centers) ==
    LET n == Len(centers)
        low == <<0 - Sentinel>>
        high == <<Sentinel>>
        a == SliceAxis(centers, 1, n)
        b == SliceAxis(centers, 0, n - 1)
        means == [i \in 1..(n - 1) |-> (a[i] + b[i]) \div 2]
    IN  low \o means \o high

(* Binned.__init__ *)
Init ==
    /\ \E n \in 1..MaxBins :
          /\ bin_centers \in SeqsOf(CenterVals, n)
          /\ bin_log_probs \in SeqsOf(LogVals, n)
    /\ _bin_probs = None
    /\ bin_edges = compute_edges(bin_centers)
    /\ expCount = 0
    /\ op = "init"
    /\ arg = 0
    /\ out = Fin(0)
    /\ idx = 0
    /\ mask = <<>>
    /\ pc = [t \in Threads |-> "idle"]
    /\ top = [t \in Threads |-> "none"]
    /\ left = [t \in Threads |-> 0]

num_bins == Len(bin_centers)

(* Binned.bin_probs: value returned by the property *)
bin_probs ==
    IF _bin_probs = None THEN ExpAll(bin_log_probs) ELSE _bin_probs.val

(* Binned.bin_probs: effect of one whole access on the instance *)
Memoize ==
    /\ _bin_probs' = Some(bin_probs)
    /\ expCount' = IF _bin_probs = None THEN expCount + 1 ELSE expCount

Frozen == UNCHANGED <<bin_centers, bin_log_probs, bin_edges>>
NoThreads == UNCHANGED <<pc, top, left>>

(* --------------------------- the operations ---------------------------- *)
(* broadcast_lesser_equal / broadcast_lesser / broadcast_greater: 0 or 1 *)
LesserEqual(a, b) == IF a <= b THEN 1 ELSE 0
Lesser(a, b) == IF a < b THEN 1 ELSE 0
Greater(a, b) == IF a > b THEN 1 ELSE 0

(* log_prob_mask with the right edge included in the bin *)
log_prob_mask_closed(x) ==
    LET left_edges == SliceAxis(bin_edges, 0, Len(bin_edges) - 1)
        right_edges == SliceAxis(bin_edges, 1, Len(bin_edges))
    IN  [i \in 1..Len(left_edges) |->
            LesserEqual(left_edges[i], x) * LesserEqual(x, right_edges[i])]

(* log_prob_mask with the left edge excluded from the bin *)
log_prob_mask_open(x) ==
    LET left_edges == SliceAxis(bin_edges, 0, Len(bin_edges) - 1)
        right_edges == SliceAxis(bin_edges, 1, Len(bin_edges))
    IN  [i \in 1..Len(left_edges) |->
            Lesser(left_edges[i], x) * Lesser(x, right_edges[i])]

(* Binned.log_prob: the 0/1 bin-membership mask of x *)
log_prob_mask(x) ==
    LET left_edges == SliceAxis(bin_edges, 0, Len(bin_edges) - 1)
        right_edges == SliceAxis(bin_edges, 1, Len(bin_edges))
    IN  [i \in 1..Len(left_edges) |->
            LesserEqual(left_edges[i], x) * Lesser(x, right_edges[i])]

(* Binned.log_prob *)
log_prob(x) ==
    LET m == log_prob_mask(x)
    IN  SumExt([i \in 1..Len(m) |-> MulMask(bin_log_probs[i], m[i])])

(* cdf over the bins whose center is strictly below x *)
cdf_strict(x) ==
    LET m == [i \in 1..num_bins |-> Lesser(bin_centers[i], x)]
    IN  SumSeq([i \in 1..num_bins |-> bin_probs[i] * m[i]])

(* cdf with bins selected by their left edge (the commented-out line 134) *)
cdf_left_edges(x) ==
    LET m == [i \in 1..num_bins |-> LesserEqual(bin_edges[i], x)]
    IN  SumSeq([i \in 1..num_bins |-> bin_probs[i] * m[i]])

(* Binned.cdf *)
cdf(x) ==
    LET m == [i \in 1..num_bins |-> LesserEqual(bin_centers[i], x)]
    IN  SumSeq([i \in 1..num_bins |-> bin_probs[i] * m[i]])

(* step comparing the running sum before bin i is added *)
step_stale(p, state, level) ==
    [cdf |-> state.cdf + p,
     idx |-> IF state.cdf > level THEN state.idx ELSE state.idx + 1]

(* step comparing with >= instead of > *)
step_ge(p, state, level) ==
    LET c == state.cdf + p
    IN  [cdf |-> c, idx |-> IF c >= level THEN state.idx ELSE state.idx + 1]

(* Binned.quantile.step: one iteration of the scan over the bins *)
step(p, state, level) ==
    LET c == state.cdf + p
    IN  [cdf |-> c, idx |-> IF Greater(c, level) = 1 THEN state.idx ELSE state.idx + 1]

(* F.contrib.foreach(step, probs, start_state): the final state *)
RECURSIVE foreach(_, _, _)
foreach(probs, state, level) ==
    IF probs = <<>> THEN state
    ELSE foreach(Tail(probs), step(Head(probs), state, level), level)

(* the scan started from bin 1 instead of bin 0 *)
quantile_idx_skip(level) ==
    foreach(Tail(bin_probs), [cdf |-> 0, idx |-> 0], level).idx

(* Binned.quantile: the index the scan ends with *)
quantile_idx(level) ==
    foreach(bin_probs, [cdf |-> 0, idx |-> 0], level).idx

(* pick with mode="wrap" *)
pick_wrap(t, i) == t[(i % Len(t)) + 1]

(* NDArray.pick(index, axis=-1) with its default mode="clip"; 0-based index *)
pick(t, i) ==
    IF i < 0 THEN t[1] ELSE IF i > Len(t) - 1 THEN t[Len(t)] ELSE t[i + 1]

(* Binned.quantile *)
quantile(level) == pick(bin_centers, quantile_idx(level))

(* Binned.mean, in units of 2^-FracBits *)
mean == SumSeq([i \in 1..num_bins |-> bin_probs[i] * bin_centers[i]])

Isqrt(n) == CHOOSE r \in 0..n : r * r <= n /\ n < (r + 1) * (r + 1)

(* Binned.stddev, in units of 2^-FracBits, rounded down; nan for a negative radicand *)
stddev ==
    LET ex2 == SumSeq([i \in 1..num_bins |->
                         bin_probs[i] * bin_centers[i] * bin_centers[i]])
        radicand == ex2 * One - mean * mean
    IN  IF radicand < 0 THEN NaN ELSE Fin(Isqrt(radicand))

(* F.sample_multinomial(bin_probs): the indices one draw can return *)
sample_multinomial ==
    LET support == {i \in 0..(num_bins - 1) : bin_probs[i + 1] > 0}
    IN  IF support = {} THEN 0..(num_bins - 1) ELSE support

(* ------------------------ actions: one caller -------------------------- *)
Observe(o, a, r, i, m) ==
    /\ op' = o
    /\ arg' = a
    /\ out' = r
    /\ idx' = i
    /\ mask' = m

BinProbs ==
    /\ Memoize
    /\ Observe("bin_probs", 0, bin_probs, 0, <<>>)
    /\ Frozen /\ NoThreads

Mean ==
    /\ Memoize
    /\ Observe("mean", 0, Fin(mean), 0, <<>>)
    /\ Frozen /\ NoThreads

Stddev ==
    /\ Memoize
    /\ Observe("stddev", 0, stddev, 0, <<>>)
    /\ Frozen /\ NoThreads

LogProb(x) ==
    /\ Observe("log_prob", x, log_prob(x), 0, log_prob_mask(x))
    /\ UNCHANGED <<_bin_probs, expCount>>
    /\ Frozen /\ NoThreads

Cdf(x) ==
    /\ Memoize
    /\ Observe("cdf", x, Fin(cdf(x)), 0, <<>>)
    /\ Frozen /\ NoThreads

Quantile(level) ==
    /\ Memoize
    /\ Observe("quantile", level, Fin(quantile(level)), quantile_idx(level), <<>>)
    /\ Frozen /\ NoThreads

(* Binned.sample: num_samples = 0 stands for None *)
Sample(num_samples) ==
    /\ Memoize
    /\ \E indices \in SeqsOf(sample_multinomial, IF num_samples = 0 THEN 1 ELSE num_samples) :
          Observe("sample", num_samples,
                  [j \in 1..Len(indices) |-> pick(bin_centers, indices[j])], 0, <<>>)
    /\ Frozen /\ NoThreads

Next ==
    \/ BinProbs
    \/ Mean
    \/ Stddev
    \/ \E x \in XVals : LogProb(x)
    \/ \E x \in XVals : Cdf(x)
    \/ \E level \in LevelVals : Quantile(level)
    \/ \E num_samples \in 0..MaxSamples : Sample(num_samples)

Spec == Init /\ [][Next]_vars

(* ---------------------- actions: several callers ----------------------- *)
(* The operations of one instance called from NumThreads threads.  The     *)
(* property bin_probs is a test of self._bin_probs (line 95) followed, if  *)
(* it was None, by the evaluation of exp and the assignment (line 96); a   *)
(* thread switch can fall between the two.  left[t] counts the accesses   *)
(* of bin_probs the running operation still makes.                         *)
CachedOps == {"bin_probs", "mean", "stddev", "cdf", "quantile", "sample"}

(* stddev reads self.bin_probs and then self.mean, which reads it again *)
Accesses(o) == IF o = "stddev" THEN 2 ELSE 1

Quiet == UNCHANGED <<op, arg, out, idx, mask>>

AccessDone(t) ==
    /\ left' = [left EXCEPT ![t] = left[t] - 1]
    /\ pc' = [pc EXCEPT ![t] = IF left[t] - 1 = 0 THEN "idle" ELSE "test"]
    /\ top' = [top EXCEPT ![t] = IF left[t] - 1 = 0 THEN "none" ELSE top[t]]

T_Call(t, o) ==
    /\ pc[t] = "idle"
    /\ pc' = [pc EXCEPT ![t] = "test"]
    /\ top' = [top EXCEPT ![t] = o]
    /\ left' = [left EXCEPT ![t] = Accesses(o)]
    /\ UNCHANGED <<_bin_probs, expCount>>
    /\ Frozen /\ Quiet

(* line 95: if self._bin_probs is None *)
T_TestNone(t) ==
    /\ pc[t] = "test"
    /\ _bin_probs = None
    /\ pc' = [pc EXCEPT ![t] = "assign"]
    /\ UNCHANGED <<top, left, _bin_probs, expCount>>
    /\ Frozen /\ Quiet

(* line 95 false, line 97: return self._bin_probs *)
T_TestSet(t) ==
    /\ pc[t] = "test"
    /\ _bin_probs # None
    /\ AccessDone(t)
    /\ UNCHANGED <<_bin_probs, expCount>>
    /\ Frozen /\ Quiet

(* line 96: self._bin_probs = self.bin_log_probs.exp() *)
T_Assign(t) ==
    /\ pc[t] = "assign"
    /\ _bin_probs' = Some(ExpAll(bin_log_probs))
    /\ expCount' = expCount + 1
    /\ AccessDone(t)
    /\ Frozen /\ Quiet

NextThreads ==
    \/ \E t \in Threads, o \in CachedOps : T_Call(t, o)
    \/ \E t \in Threads : T_TestNone(t)
    \/ \E t \in Threads : T_TestSet(t)
    \/ \E t \in Threads : T_Assign(t)

SpecThreads == Init /\ [][NextThreads]_vars

(* ------------------------------ properties ----------------------------- *)
(* Vocabulary of the statements below, in terms of the constructor's       *)
(* arguments; bins are numbered from 0 as in the source.                   *)
P(i) == Exp(bin_log_probs[i + 1])
Center(i) == bin_centers[i + 1]
Bins == 0..(num_bins - 1)

RECURSIVE SumOver(_)
SumOver(S) == IF S = {} THEN 0 ELSE LET i == CHOOSE j \in S : TRUE IN P(i) + SumOver(S \ {i})

(* cumulative probability p[0] + ... + p[i] *)
Cum(i) == SumOver(0..i)
Total == SumOver(Bins)
Normalized == Total = One
NonDecreasing == \A i \in Bins, j \in Bins : i <= j => Center(i) <= Center(j)
AllFinite == \A i \in Bins : bin_log_probs[i + 1].k = "fin"
InSentinels(x) == 0 - Sentinel <= x /\ x < Sentinel

Least(S) == CHOOSE i \in S : \A j \in S : i <= j
Exceeding(level) == {i \in Bins : Cum(i) > level}
Reaching(level) == {i \in Bins : Cum(i) >= level}
Matching(x) == {i \in Bins : bin_edges[i + 1] <= x /\ x < bin_edges[i + 2]}

(* C1, as stated (on probabilities that sum to 1): for every level        *)
(* strictly below the total mass the scan                                  *)
(* ends with idx the smallest bin index whose cumulative probability       *)
(* strictly exceeds level, quantile returns bin_centers[idx], and a level  *)
(* equal to the cumulative sum through bin i selects bin i+1.              *)
C1_AsStated ==
    (op = "quantile" /\ Normalized /\ arg < Total) =>
        /\ idx = Least(Exceeding(arg))
        /\ out = Fin(Center(idx))
        /\ \A i \in Bins : arg = Cum(i) => idx = i + 1

(* C1, amended: for every level strictly below the total mass the scan    *)
(* ends with idx the smallest bin index whose cumulative probability       *)
(* strictly exceeds level, and quantile returns bin_centers[idx]; a level  *)
(* equal to the cumulative sum through bin i selects bin i+1 when bin i+1  *)
(* has positive probability, and otherwise the first later bin that has.   *)
C1_SmallestExceeding ==
    (op = "quantile" /\ arg < Total) =>
        /\ idx = Least(Exceeding(arg))
        /\ out = Fin(Center(idx))
        /\ \A i \in Bins : arg = Cum(i) =>
              /\ idx > i
              /\ P(idx) > 0
              /\ \A j \in (i + 1)..(idx - 1) : P(j) = 0

C1_Witness ==
    /\ op = "quantile"
    /\ arg < Total
    /\ \E i \in Bins : arg = Cum(i) /\ P(i) > 0 /\ idx = i + 1
    /\ out = Fin(Center(idx))

(* C2, as stated (on positive probabilities that sum to 1): quantile returns the center of the smallest bin index    *)
(* whose cumulative probability meets or exceeds level.                    *)
C2_AsStated ==
    (op = "quantile" /\ Normalized /\ (\A i \in Bins : P(i) > 0) /\ Reaching(arg) # {}) =>
        out = Fin(Center(Least(Reaching(arg))))

(* C2, amended: quantile returns the center of the smallest bin index      *)
(* whose cumulative probability strictly exceeds level, and the center of  *)
(* the last bin when no cumulative probability exceeds level.              *)
C2_StrictCrossing ==
    op = "quantile" =>
        out = Fin(IF Exceeding(arg) # {}
                  THEN Center(Least(Exceeding(arg)))
                  ELSE Center(num_bins - 1))

C2_Witness ==
    /\ op = "quantile"
    /\ \E i \in Bins : arg = Cum(i) /\ i < num_bins - 1 /\ P(i) > 0 /\ P(i + 1) > 0
    /\ Center(Least(Reaching(arg))) # Center(Least(Exceeding(arg)))
    /\ out = Fin(Center(Least(Exceeding(arg))))

(* C3, as stated: with probabilities summing to exactly 1 every level in   *)
(* [0, 1] leaves idx within 0..num_bins-1, and idx reaches num_bins only   *)
(* when level exceeds the total mass.                                      *)
C3_AsStated ==
    (op = "quantile" /\ Normalized) =>
        /\ (0 <= arg /\ arg <= One) => idx \in Bins
        /\ idx = num_bins => arg > Total

(* C3, amended: with probabilities summing to exactly 1 every level in     *)
(* [0, 1) leaves idx within 0..num_bins-1; idx never passes num_bins and   *)
(* reaches it exactly when level is at or above the total mass, so level   *)
(* 1 gives idx = num_bins.                                                 *)
C3_IndexRange ==
    op = "quantile" =>
        /\ (Normalized /\ 0 <= arg /\ arg < One) => idx \in Bins
        /\ idx \in 0..num_bins
        /\ idx = num_bins <=> arg >= Total

C3_Witness ==
    /\ op = "quantile"
    /\ Normalized
    /\ arg = One
    /\ idx = num_bins
    /\ num_bins > 1

(* C4, as stated: level 0 resolves to bin 0 for every probability vector   *)
(* summing to 1, also when the first bin has probability 0.                *)
C4_AsStated ==
    (op = "quantile" /\ arg = 0 /\ Normalized) =>
        idx = 0 /\ out = Fin(Center(0))

(* C4, amended: for every probability vector summing to 1, level 0         *)
(* resolves to the first bin of positive probability, which is bin 0       *)
(* exactly when the first bin has positive probability.                    *)
C4_FirstPositiveBin ==
    (op = "quantile" /\ arg = 0 /\ Normalized) =>
        /\ idx = Least({i \in Bins : P(i) > 0})
        /\ out = Fin(Center(idx))
        /\ idx = 0 <=> P(0) > 0

C4_Witness ==
    /\ op = "quantile"
    /\ arg = 0
    /\ Normalized
    /\ P(0) = 0
    /\ idx > 0
    /\ Center(idx) # Center(0)

(* C5, as stated: with non-decreasing centers, for every query x exactly   *)
(* one bin i has bin_edges[i] <= x < bin_edges[i+1], exactly one mask      *)
(* entry is 1, and log_prob(x) is bin_log_probs[i].                        *)
C5_AsStated ==
    (op = "log_prob" /\ NonDecreasing) =>
        /\ Cardinality(Matching(arg)) = 1
        /\ SumSeq(mask) = 1
        /\ \A i \in Matching(arg) : out = bin_log_probs[i + 1]

(* C5, amended: with non-decreasing centers, for every query x with        *)
(* -1e10 <= x < 1e10 exactly one bin i has bin_edges[i] <= x <             *)
(* bin_edges[i+1] and exactly one mask entry, the one of bin i, is 1; x    *)
(* below the smallest center falls into the first bin and x above the      *)
(* largest into the last; log_prob(x) is bin_log_probs[i] when the         *)
(* log-probabilities of all other bins are finite.                         *)
C5_ExactlyOneBin ==
    (op = "log_prob" /\ NonDecreasing /\ InSentinels(arg)) =>
        /\ Cardinality(Matching(arg)) = 1
        /\ SumSeq(mask) = 1
        /\ \A i \in Matching(arg) :
              /\ mask[i + 1] = 1
              /\ (\A j \in Bins : arg < Center(j)) => i = 0
              /\ (\A j \in Bins : arg > Center(j)) => i = num_bins - 1
              /\ (\A j \in Bins \ {i} : bin_log_probs[j + 1].k = "fin")
                    => out = bin_log_probs[i + 1]

C5_Witness ==
    /\ op = "log_prob"
    /\ NonDecreasing
    /\ InSentinels(arg)
    /\ num_bins = 3
    /\ AllFinite
    /\ Matching(arg) = {1}
    /\ out = bin_log_probs[2]
    /\ bin_log_probs[1] # bin_log_probs[2]
    /\ bin_log_probs[3] # bin_log_probs[2]

(* C6: cdf(x) is the sum of bin_probs over exactly the bins whose center   *)
(* is <= x; it is non-decreasing in x, 0 for x below every center and the  *)
(* total mass for x at or above the largest center.                        *)
C6_CdfByCenters ==
    op = "cdf" =>
        /\ out = Fin(SumOver({i \in Bins : Center(i) <= arg}))
        /\ \A y \in XVals : arg <= y => out.v <= cdf(y)
        /\ \A y \in XVals : y <= arg => cdf(y) <= out.v
        /\ (\A i \in Bins : arg < Center(i)) => out.v = 0
        /\ (\A i \in Bins : Center(i) <= arg) => out.v = Total

C6_Witness ==
    /\ op = "cdf"
    /\ num_bins = 3
    /\ 0 < out.v
    /\ out.v < Total
    /\ \E y \in XVals : arg < y /\ out.v < cdf(y) /\ cdf(y) < Total

(* the edges _compute_edges builds from bin_centers *)
EdgesOfCenters ==
    /\ Len(bin_edges) = num_bins + 1
    /\ bin_edges[1] = 0 - Sentinel
    /\ bin_edges[num_bins + 1] = Sentinel
    /\ \A i \in 1..(num_bins - 1) : 2 * bin_edges[i + 1] = Center(i - 1) + Center(i)

C8_ComputedOnce ==
    /\ expCount <= 1
    /\ _bin_probs # None => (expCount = 1 /\ _bin_probs = Some(ExpAll(bin_log_probs)))

C10_NearInverse ==
    (op = "quantile" /\ NonDecreasing /\ arg < Total) =>
        /\ cdf(out.v) > arg
        /\ \A i \in Bins : Center(i) < out.v => cdf(Center(i)) <= arg

C10_Witness ==
    /\ op = "quantile"
    /\ NonDecreasing
    /\ arg < Total
    /\ arg >= 0
    /\ idx > 0
    /\ \E i \in Bins : Center(i) < out.v /\ P(i) > 0
    /\ cdf(out.v) > arg

====
